---- MODULE Spec2Model ----
(***************************************************************************)
(* Model of the caching simulator (src/caching.cpp): a six-phase control   *)
(* unit for a 16-bit instruction set whose data accesses go through a      *)
(* write-back cache with LRU replacement.                                  *)
(*                                                                         *)
(* Words are integers 0..65535; memory holds them as two bytes <<hi, lo>>. *)
(* CACHE_BLOCKS, BLOCK_SIZE, CODE_SIZE and BRANCH_LIMIT are scaled down;    *)
(* DATA_SIZE follows from BLOCK_SIZE as in the source, and all widths and  *)
(* encodings are kept.  The range check of the cache lets accesses beyond  *)
(* data[] through; what such an access reaches is not fixed by the source  *)
(* but by the build, which is a choice made in the initial state.          *)
(***************************************************************************)
EXTENDS Integers, Sequences, FiniteSets, TLC

\* ------------------------------------------------------------------ geometry
CACHE_BLOCKS == 2
BLOCK_SIZE == 2
WORD_SIZE == 2
\* #define DATA_SIZE (1024/BLOCK_SIZE)
DATA_SIZE == 1024 \div BLOCK_SIZE
CODE_SIZE == 5
\* #define CODE_SIZE 1024: the words code[] occupies in memory, of which the
\* phase loop of the model runs the first CODE_SIZE
CODE_WORDS == 1024
REGISTERS == 16
MEM_FILLER == 255
BRANCH_LIMIT == 2

\* the calls made: enough to fill the cache, evict a block and load it again
MaxAccess == CACHE_BLOCKS + 2
\* the calls made when addresses beyond data memory are among them: enough to
\* fill the cache and evict a block
MaxCalls == CACHE_BLOCKS + 1

\* ------------------------------------------------------------------ phases
FETCH_INSTR == "FETCH_INSTR"
DECODE_INSTR == "DECODE_INSTR"
CALCULATE_EA == "CALCULATE_EA"
FETCH_OPERANDS == "FETCH_OPERANDS"
EXECUTE_INSTR == "EXECUTE_INSTR"
WRITE_BACK == "WRITE_BACK"
ILLEGAL_OPCODE == "ILLEGAL_OPCODE"
INFINITE_LOOP == "INFINITE_LOOP"
ILLEGAL_ADDRESS == "ILLEGAL_ADDRESS"
\* main() has no phase any more: the process was killed by SIGSEGV inside a
\* cache routine
SIGSEGV == "SIGSEGV"

RunningPhases ==
  {FETCH_INSTR, DECODE_INSTR, CALCULATE_EA, FETCH_OPERANDS, EXECUTE_INSTR, WRITE_BACK}
TerminalPhases == {ILLEGAL_OPCODE, INFINITE_LOOP, ILLEGAL_ADDRESS}

\* ------------------------------------------------------------------ opcodes
ADD_OPCODE == 0
SUB_OPCODE == 1
AND_OPCODE == 2
OR_OPCODE == 3
XOR_OPCODE == 4
MOVE_OPCODE == 5
SHIFT_OPCODE == 6
BRANCH_OPCODE == 7

\* ------------------------------------------------------------------ words and bytes
Blocks == 0 .. (CACHE_BLOCKS - 1)
Offsets == 0 .. (BLOCK_SIZE - 1)
DataTags == 0 .. (DATA_SIZE - 1)
\* number of words data memory really holds
DataWords == DATA_SIZE * BLOCK_SIZE
\* the limit cache_read and cache_write compare MAR with
AddrLimit == DATA_SIZE * BLOCK_SIZE * 2

U16(x) == x % 65536
HiByte(w) == (w \div 256) % 256
LoByte(w) == w % 256
\* a word as stored in memory, high byte first
ToBytes(w) == <<HiByte(w), LoByte(w)>>
\* (b[0] << 8) | b[1]
FromBytes(b) == b[1] * 256 + b[2]
addr2tag(addr) == addr \div BLOCK_SIZE
addr2offset(addr) == addr % BLOCK_SIZE

FillerWord == <<MEM_FILLER, MEM_FILLER>>
FillerBlock == [i \in Offsets |-> FillerWord]

\* ------------------------------------------------------------------ unsigned long
\* ref_count and cache_hits are unsigned long: eight bytes, kept lowest first
ULONG_SIZE == 8

RECURSIVE ULBytes(_, _)
ULBytes(n, k) == IF k = 0 THEN <<>> ELSE <<n % 256>> \o ULBytes(n \div 256, k - 1)
\* the unsigned long of value n
ULong(n) == ULBytes(n, ULONG_SIZE)

RECURSIVE ULLessFrom(_, _, _)
ULLessFrom(a, b, k) ==
  IF k = 0 THEN FALSE
  ELSE IF a[k] # b[k] THEN a[k] < b[k] ELSE ULLessFrom(a, b, k - 1)
\* a < b
ULLess(a, b) == ULLessFrom(a, b, ULONG_SIZE)

RECURSIVE ULIncFrom(_, _)
ULIncFrom(a, k) ==
  IF k > ULONG_SIZE THEN a
  ELSE IF a[k] = 255 THEN ULIncFrom([a EXCEPT ![k] = 0], k + 1)
  ELSE [a EXCEPT ![k] = @ + 1]
\* a + 1, wrapping at 2^64
ULInc(a) == ULIncFrom(a, 1)

\* ------------------------------------------------------------------ the memory behind data[]
\* The source defines code, data, data_cache, dictionary, cache_hits,
\* registers and state in this order, and insert_data() has the static
\* data_index.  Which of them lies behind data[] is the build's choice:
\*   InOrder   the statics follow one another as defined, each at the
\*             alignment of its size: data, data_cache, dictionary,
\*             cache_hits, registers, state, data_index (g++ -O0);
\*   Reversed  the statics lie in the reverse order, so that code[] follows
\*             data[] and the cache and the registers lie before it
\*             (g++ -O1, -O2, -O3, -Os).
\* Offsets are bytes from the start of data[].
InOrder == "InOrder"
Reversed == "Reversed"
BlockBytes == BLOCK_SIZE * WORD_SIZE
DataBytes == DATA_SIZE * BlockBytes
CacheBytes == CACHE_BLOCKS * BlockBytes

\* struct CACHE_ENTRY: valid, dirty, ref_count and tag with their padding
ENTRY_SIZE == 24
VALID_AT == 0
DIRTY_AT == 1
REF_AT == 8
TAG_AT == 16
\* struct STATE: PC, MDR, MAR, IR[2], ALU_x, ALU_y, ALU_z, and the gap to the
\* next object
STATE_SIZE == 14
STATE_SPAN == 16
IR_AT == 6

\* the alignment the build gives an array of that many bytes
Align(size) == IF size >= 32 THEN 32 ELSE IF size >= 16 THEN 16 ELSE IF size >= 8 THEN 8 ELSE 1
RoundUp(x, a) == ((x + a - 1) \div a) * a

CacheAt == RoundUp(DataBytes, Align(CacheBytes))
DictAt == RoundUp(CacheAt + CacheBytes, Align(CACHE_BLOCKS * ENTRY_SIZE))
HitsAt == RoundUp(DictAt + CACHE_BLOCKS * ENTRY_SIZE, ULONG_SIZE)
RegsAt == RoundUp(HitsAt + ULONG_SIZE, Align(REGISTERS * WORD_SIZE))
StateAt == RegsAt + REGISTERS * WORD_SIZE
\* insert_data()'s static int data_index, behind state
ImageEnd == StateAt + STATE_SPAN
\* Reversed: code[] behind data[]
CodeAt == RoundUp(DataBytes, Align(CODE_WORDS * WORD_SIZE))
\* the end of the last block that passes the range check.  Up to this offset
\* the memory behind the statics belongs to the process: it is zero at the
\* start and keeps what is stored onto it.  The tag of an access is below
\* this offset unless it was forged by a store onto dictionary[].
TailEnd == DATA_SIZE * BLOCK_SIZE * 2 * WORD_SIZE

InCache(off) == off >= CacheAt /\ off < CacheAt + CacheBytes
InDict(off) == off >= DictAt /\ off < DictAt + CACHE_BLOCKS * ENTRY_SIZE
InHits(off) == off >= HitsAt /\ off < HitsAt + ULONG_SIZE
InRegs(off) == off >= RegsAt /\ off < RegsAt + REGISTERS * WORD_SIZE
InState(off) == off >= StateAt /\ off < StateAt + STATE_SIZE
\* the words of code[] the model follows
InCode(off) == off >= CodeAt /\ off < CodeAt + CODE_SIZE * WORD_SIZE
\* the field of a dictionary entry the byte belongs to
InRef(f) == f >= REF_AT /\ f < REF_AT + ULONG_SIZE
InTag(f) == f >= TAG_AT /\ f < TAG_AT + WORD_SIZE

\* The range check lets DATA_SIZE tags beyond data[] through, which reach every
\* object of the image.  The word address (value of MAR) that lies on the
\* byte at offset off:
WordOf(off) == off \div WORD_SIZE

\* ------------------------------------------------------------------ state
VARIABLES
  PC, MDR, MAR, IR, ALU_x, ALU_y, ALU_z,   \* struct STATE
  registers, code, data,                   \* register file, code and data memory
  data_cache, dictionary,                  \* cache payloads and dictionary
  cache_hits, current_ref_count,           \* cache statistics / LRU stamp
  build,                                   \* the order of the statics in memory
  pad,                                     \* the bytes stored behind data[] onto no
                                           \* variable above, by offset
  branch_count,                            \* taken branches and jumps
  current_phase, flushed,                  \* main(): phase loop position, final flush done
  flat, last,                              \* history: reference flat memory, last call
  recency, n_access,                       \* history: reference LRU list of resident tags,
                                           \* accepted calls,
  n_inrange, n_resident,                   \* accepted calls inside data memory, and those
                                           \* of them that found their tag resident
  asm,                                     \* history: the assembler's last instruction
  fetched, n_fetch                         \* history: the PC of the last FETCH_INSTR, the
                                           \* number of FETCH_INSTR phases

cpuVars == <<PC, MDR, MAR, IR, ALU_x, ALU_y, ALU_z, registers, code, branch_count>>
memVars == <<data, data_cache, dictionary, cache_hits, current_ref_count, build, pad>>
vars == <<PC, MDR, MAR, IR, ALU_x, ALU_y, ALU_z, registers, code, data, data_cache,
          dictionary, cache_hits, current_ref_count, build, pad, branch_count,
          current_phase, flushed, flat, last, recency, n_access, n_inrange, n_resident,
          asm, fetched, n_fetch>>

\* The statics a cache routine reads or writes, or that may lie behind data[],
\* gathered so that the routines below are functions of it.  `beyond` tells
\* that the routine has stored beyond TailEnd.
M ==
  [dictionary |-> dictionary, data_cache |-> data_cache, data |-> data,
   cache_hits |-> cache_hits, current_ref_count |-> current_ref_count,
   registers |-> registers, PC |-> PC, MAR |-> MAR, MDR |-> MDR, IR |-> IR,
   ALU_x |-> ALU_x, ALU_y |-> ALU_y, ALU_z |-> ALU_z, code |-> code,
   build |-> build, pad |-> pad, beyond |-> FALSE]

Commit(m) ==
  /\ dictionary' = m.dictionary
  /\ data_cache' = m.data_cache
  /\ data' = m.data
  /\ cache_hits' = m.cache_hits
  /\ current_ref_count' = m.current_ref_count
  /\ registers' = m.registers
  /\ PC' = m.PC
  /\ MAR' = m.MAR
  /\ MDR' = m.MDR
  /\ IR' = m.IR
  /\ ALU_x' = m.ALU_x
  /\ ALU_y' = m.ALU_y
  /\ ALU_z' = m.ALU_z
  /\ code' = m.code
  /\ build' = m.build
  /\ pad' = m.pad

\* ------------------------------------------------------------------ data[tag] as bytes
\* data[] has DATA_SIZE blocks, yet tags up to AddrLimit / BLOCK_SIZE - 1 pass
\* the range check.  data[tag][i][j] with tag >= DATA_SIZE is undefined in the
\* language; the build makes it the byte that lies that far behind the start
\* of data[], which belongs to the object the build has put there.

\* unsigned short as two bytes of the (little-endian) host
ShortByte(w, j) == IF j = 0 THEN LoByte(w) ELSE HiByte(w)
WithByte(w, j, v) == IF j = 0 THEN (w \div 256) * 256 + v ELSE v * 256 + (w % 256)

\* load_files(): the data file fills data memory from word 0 on
FileWords == (CACHE_BLOCKS + 1) * BLOCK_SIZE

\* the byte at offset off that is no variable of the model, as
\* initialize_system() and load_files() leave it: the words of code[] are
\* MEM_FILLER, data_index counts the words of the data file, the rest is zero
Untouched(b, off) ==
  IF b = Reversed
    THEN IF off >= CodeAt /\ off < CodeAt + CODE_WORDS * WORD_SIZE THEN MEM_FILLER ELSE 0
  ELSE IF off >= ImageEnd /\ off < ImageEnd + 4
    THEN (FileWords \div (256 ^ (off - ImageEnd))) % 256
  ELSE 0

\* such a byte now, and after v is stored onto it
PadByte(m, off) == IF off \in DOMAIN m.pad THEN m.pad[off] ELSE Untouched(m.build, off)
Padded(m, off, v) == [m EXCEPT !.pad = (off :> v) @@ @]

\* the offset of byte k of data[tag]
Where(m, tag, k) == tag * BlockBytes + k

\* the byte at offset off
ByteAt(m, off) ==
  IF off < DataBytes
    THEN m.data[off \div BlockBytes][(off % BlockBytes) \div WORD_SIZE][(off % WORD_SIZE) + 1]
  ELSE IF m.build = Reversed
    THEN IF InCode(off)
           THEN m.code[(off - CodeAt) \div WORD_SIZE][((off - CodeAt) % WORD_SIZE) + 1]
           ELSE PadByte(m, off)
  ELSE IF InCache(off)
    THEN LET o == off - CacheAt
         IN m.data_cache[o \div BlockBytes][(o % BlockBytes) \div WORD_SIZE][(o % WORD_SIZE) + 1]
  ELSE IF InDict(off)
    THEN LET e == m.dictionary[(off - DictAt) \div ENTRY_SIZE]
             f == (off - DictAt) % ENTRY_SIZE
         IN IF f = VALID_AT THEN e.valid_byte
            ELSE IF f = DIRTY_AT THEN e.dirty_byte
            ELSE IF InRef(f) THEN e.ref_count[f - REF_AT + 1]
            ELSE IF InTag(f) THEN ShortByte(e.tag, f - TAG_AT)
            ELSE PadByte(m, off)
  ELSE IF InHits(off) THEN m.cache_hits[off - HitsAt + 1]
  ELSE IF InRegs(off)
    THEN ShortByte(m.registers[(off - RegsAt) \div WORD_SIZE], (off - RegsAt) % WORD_SIZE)
  ELSE IF InState(off)
    THEN LET f == off - StateAt
         IN IF f < 2 THEN ShortByte(m.PC, f)
            ELSE IF f < 4 THEN ShortByte(m.MDR, f - 2)
            ELSE IF f < 6 THEN ShortByte(m.MAR, f - 4)
            ELSE IF f < 8 THEN m.IR[f - IR_AT + 1]
            ELSE IF f < 10 THEN ShortByte(m.ALU_x, f - 8)
            ELSE IF f < 12 THEN ShortByte(m.ALU_y, f - 10)
            ELSE ShortByte(m.ALU_z, f - 12)
  ELSE PadByte(m, off)

\* the statics with the byte at offset off set to v.  A store beyond TailEnd
\* is marked: the memory there may not be mapped, and then the store kills
\* the process.
SetByte(m, off, v) ==
  IF off < DataBytes
    THEN [m EXCEPT
            !.data[off \div BlockBytes][(off % BlockBytes) \div WORD_SIZE][(off % WORD_SIZE) + 1] = v]
  ELSE LET s == [m EXCEPT !.beyond = (@ \/ off >= TailEnd)] IN
  IF m.build = Reversed
    THEN IF InCode(off)
           THEN [s EXCEPT
                   !.code[(off - CodeAt) \div WORD_SIZE][((off - CodeAt) % WORD_SIZE) + 1] = v]
           ELSE Padded(s, off, v)
  ELSE IF InCache(off)
    THEN LET o == off - CacheAt
         IN [s EXCEPT
               !.data_cache[o \div BlockBytes][(o % BlockBytes) \div WORD_SIZE][(o % WORD_SIZE) + 1] = v]
  ELSE IF InDict(off)
    THEN LET b == (off - DictAt) \div ENTRY_SIZE
             f == (off - DictAt) % ENTRY_SIZE
         IN IF f = VALID_AT
              THEN [s EXCEPT !.dictionary[b].valid_byte = v, !.dictionary[b].valid = (v # 0)]
            ELSE IF f = DIRTY_AT
              THEN [s EXCEPT !.dictionary[b].dirty_byte = v, !.dictionary[b].dirty = (v # 0)]
            ELSE IF InRef(f) THEN [s EXCEPT !.dictionary[b].ref_count[f - REF_AT + 1] = v]
            ELSE IF InTag(f) THEN [s EXCEPT !.dictionary[b].tag = WithByte(@, f - TAG_AT, v)]
            ELSE Padded(s, off, v)
  ELSE IF InHits(off) THEN [s EXCEPT !.cache_hits[off - HitsAt + 1] = v]
  ELSE IF InRegs(off)
    THEN [s EXCEPT !.registers[(off - RegsAt) \div WORD_SIZE] =
                      WithByte(@, (off - RegsAt) % WORD_SIZE, v)]
  ELSE IF InState(off)
    THEN LET f == off - StateAt
         IN IF f < 2 THEN [s EXCEPT !.PC = WithByte(@, f, v)]
            ELSE IF f < 4 THEN [s EXCEPT !.MDR = WithByte(@, f - 2, v)]
            ELSE IF f < 6 THEN [s EXCEPT !.MAR = WithByte(@, f - 4, v)]
            ELSE IF f < 8 THEN [s EXCEPT !.IR[f - IR_AT + 1] = v]
            ELSE IF f < 10 THEN [s EXCEPT !.ALU_x = WithByte(@, f - 8, v)]
            ELSE IF f < 12 THEN [s EXCEPT !.ALU_y = WithByte(@, f - 10, v)]
            ELSE [s EXCEPT !.ALU_z = WithByte(@, f - 12, v)]
  ELSE Padded(s, off, v)

\* byte k of data_cache[block_id]
PayloadByte(m, block_id, k) == m.data_cache[block_id][k \div WORD_SIZE][(k % WORD_SIZE) + 1]

\* write_block(), lines 209-213, from byte k on:
\* data[dictionary[block_id].tag][i][j] = data_cache[block_id][i][j]
\* Where the store may change the tag or the payload (InOrder), they are read
\* again for every byte.
RECURSIVE StoreBlock(_, _, _)
StoreBlock(m, block_id, k) ==
  IF k >= BlockBytes THEN m
  ELSE StoreBlock(SetByte(m, Where(m, m.dictionary[block_id].tag, k),
                          PayloadByte(m, block_id, k)),
                  block_id, k + 1)

\* fetch_block(), lines 275-279, from byte k on:
\* data_cache[block_id][i][j] = data[tag][i][j]
RECURSIVE LoadBlock(_, _, _, _)
LoadBlock(m, block_id, tag, k) ==
  IF k >= BlockBytes THEN m
  ELSE LoadBlock([m EXCEPT !.data_cache[block_id][k \div WORD_SIZE][(k % WORD_SIZE) + 1] =
                              ByteAt(m, Where(m, tag, k))],
                 block_id, tag, k + 1)

\* ------------------------------------------------------------------ cache routines
\* Each routine maps the statics to the statics it leaves.

\* dictionary[block_id].valid = false; .dirty = false; .ref_count = 0
Cleared(e) ==
  [e EXCEPT !.valid = FALSE, !.valid_byte = 0, !.dirty = FALSE, !.dirty_byte = 0,
            !.ref_count = ULong(0)]

\* a write_block that frees the entry without storing its dirty payload
write_block_dropping(m, block_id) ==
  IF m.dictionary[block_id].valid
    THEN [m EXCEPT !.dictionary[block_id] = Cleared(@)]
    ELSE m

\* the statics write_block() leaves when it returns; m.beyond tells that it
\* may not return
write_block(m, block_id) ==
  IF m.dictionary[block_id].valid
    THEN LET s == IF m.dictionary[block_id].dirty THEN StoreBlock(m, block_id, 0) ELSE m
         IN [s EXCEPT !.dictionary[block_id] = Cleared(@)]
    ELSE m

RECURSIVE LRUScan(_, _, _, _)
LRUScan(dict, i, LRU, block_id) ==
  IF i >= CACHE_BLOCKS THEN block_id
  ELSE IF dict[i].valid /\ ULLess(dict[i].ref_count, LRU)
         THEN LRUScan(dict, i + 1, dict[i].ref_count, i)
         ELSE LRUScan(dict, i + 1, LRU, block_id)

\* unsigned long LRU = 0xFFFFFFFF
LRU_START == <<255, 255, 255, 255, 0, 0, 0, 0>>

removeLRU(m) ==
  LET block_id == LRUScan(m.dictionary, 0, LRU_START, 0) IN
    [m |-> write_block(m, block_id), block_id |-> block_id]

RECURSIVE FirstFree(_, _)
FirstFree(dict, i) ==
  IF i >= CACHE_BLOCKS THEN -1
  ELSE IF dict[i].valid = FALSE THEN i ELSE FirstFree(dict, i + 1)

\* fetch_block(), lines 275-284: the block is copied into entry p.block_id of
\* the statics p.m, and the entry is marked
fill_block(p, tag) ==
  [m |-> [LoadBlock(p.m, p.block_id, tag, 0) EXCEPT
            !.dictionary[p.block_id].valid = TRUE,
            !.dictionary[p.block_id].valid_byte = 1,
            !.dictionary[p.block_id].dirty = FALSE,
            !.dictionary[p.block_id].dirty_byte = 0,
            !.dictionary[p.block_id].tag = tag],
   block_id |-> p.block_id]

fetch_block(m, tag) ==
  LET free == FirstFree(m.dictionary, 0)
  IN fill_block(IF free # -1 THEN [m |-> m, block_id |-> free] ELSE removeLRU(m), tag)

RECURSIVE FindScan(_, _, _)
FindScan(dict, tag, i) ==
  IF i >= CACHE_BLOCKS THEN -1
  ELSE IF dict[i].valid /\ dict[i].tag = tag THEN i ELSE FindScan(dict, tag, i + 1)

find_block(m, tag) ==
  LET i == FindScan(m.dictionary, tag, 0) IN [found |-> i # -1, block_id |-> i]

\* the residency prelude shared by cache_write and cache_read (lines 326-332, 362-368)
Missed(r) == [m |-> r.m, block_id |-> r.block_id, hit |-> FALSE]

Resident(m, tag) ==
  LET fb == find_block(m, tag) IN
    IF ~fb.found
      THEN Missed(fetch_block(m, tag))
      ELSE [m |-> [m EXCEPT !.cache_hits = ULInc(@)], block_id |-> fb.block_id, hit |-> TRUE]

\* a range check that lets the limit itself through
in_range_inclusive(mar) == mar <= (DATA_SIZE * BLOCK_SIZE * 2)

\* if (state.MAR < (DATA_SIZE * BLOCK_SIZE * 2))
in_range(mar) == mar < (DATA_SIZE * BLOCK_SIZE * 2)

\* cache_write(), lines 334-343: the block is resident as r tells
write_resident(r, offset) ==
  [rc |-> FETCH_INSTR, hit |-> r.hit, block_id |-> r.block_id,
   m |-> [r.m EXCEPT
            !.data_cache[r.block_id][offset] = <<HiByte(r.m.MDR), LoByte(r.m.MDR)>>,
            !.dictionary[r.block_id].ref_count = ULong(r.m.current_ref_count),
            !.current_ref_count = @ + 1,
            !.dictionary[r.block_id].dirty = TRUE,
            !.dictionary[r.block_id].dirty_byte = 1]]

cache_write(m) ==
  IF in_range(m.MAR)
    THEN write_resident(Resident(m, addr2tag(m.MAR)), addr2offset(m.MAR))
    ELSE [rc |-> ILLEGAL_ADDRESS, hit |-> FALSE, block_id |-> -1, m |-> m]

\* cache_read(), lines 370-377: the block is resident as r tells
read_resident(r, offset) ==
  [rc |-> WRITE_BACK, hit |-> r.hit, block_id |-> r.block_id,
   m |-> [r.m EXCEPT
            !.MDR = FromBytes(r.m.data_cache[r.block_id][offset]),
            !.dictionary[r.block_id].ref_count = ULong(r.m.current_ref_count),
            !.current_ref_count = @ + 1]]

cache_read(m) ==
  IF in_range(m.MAR)
    THEN read_resident(Resident(m, addr2tag(m.MAR)), addr2offset(m.MAR))
    ELSE [rc |-> ILLEGAL_ADDRESS, hit |-> FALSE, block_id |-> -1, m |-> m]

\* main(): for (i = 0; i < CACHE_BLOCKS; i++) write_block(i);
RECURSIVE FlushFrom(_, _)
FlushFrom(m, i) ==
  IF i >= CACHE_BLOCKS THEN m
  ELSE FlushFrom(write_block(m, i), i + 1)

\* ------------------------------------------------------------------ history of the calls
histVars == <<flat, last, recency, n_access, n_inrange, n_resident, asm, fetched, n_fetch>>

NoCall ==
  [op |-> "none", mar |-> 0, mdr |-> 0, rc |-> FETCH_INSTR, hit |-> FALSE,
   block_id |-> -1, pre |-> <<>>, lru |-> -1]

Without(seq, t) == SelectSeq(seq, LAMBDA x : x # t)

\* the call `op` (cache_read or cache_write) with MAR = mar, MDR = mdr went
\* from statics m to outcome out
Track(op, mar, mdr, m, out) ==
  LET accepted == out.rc # ILLEGAL_ADDRESS
      inside == accepted /\ mar < DataWords
      tag == addr2tag(mar)
      wasFull == \A b \in Blocks : m.dictionary[b].valid
      wasResident == \E b \in Blocks : m.dictionary[b].valid /\ m.dictionary[b].tag = tag
      victim == m.dictionary[out.block_id].tag
  IN /\ last' = [op |-> op, mar |-> mar, mdr |-> mdr, rc |-> out.rc, hit |-> out.hit,
                 block_id |-> out.block_id, pre |-> m.dictionary,
                 lru |-> IF recency = <<>> THEN -1 ELSE Head(recency)]
     /\ flat' = IF accepted /\ op = "write" /\ mar < DataWords
                  THEN [flat EXCEPT ![mar] = mdr] ELSE flat
     /\ n_access' = IF accepted THEN n_access + 1 ELSE n_access
     /\ n_inrange' = IF inside THEN n_inrange + 1 ELSE n_inrange
     /\ n_resident' = IF inside /\ wasResident THEN n_resident + 1 ELSE n_resident
     /\ recency' = IF ~accepted THEN recency
                   ELSE IF out.hit \/ ~wasFull THEN Append(Without(recency, tag), tag)
                   ELSE Append(Without(Without(recency, victim), tag), tag)
     /\ asm' = asm
     /\ fetched' = fetched
     /\ n_fetch' = n_fetch

\* the process is killed inside a cache routine called with MAR = mar and
\* MDR = mdr: the routine does not return and no phase follows
Killed(mar, mdr) ==
  /\ current_phase' = SIGSEGV
  /\ last' = [NoCall EXCEPT !.op = "killed", !.mar = mar, !.mdr = mdr]
  /\ UNCHANGED <<cpuVars, memVars, flushed>>
  /\ UNCHANGED <<flat, recency, n_access, n_inrange, n_resident, asm, fetched, n_fetch>>

\* A routine that has stored beyond TailEnd returns if that memory is mapped
\* and is killed if it is not; a routine that has not returns.
Fates(m) == IF m.beyond THEN {"returns", "killed"} ELSE {"returns"}

\* the call `op` with MAR = mar, MDR = mdr made in phase `phase` has the
\* outcome out: if it returns, it leaves the statics out.m and main() the
\* phase next
Called(op, mar, mdr, out, next) ==
  \E fate \in Fates(out.m) :
    IF fate = "killed" THEN Killed(mar, mdr)
    ELSE /\ Commit(out.m)
         /\ Track(op, mar, mdr, M, out)
         /\ current_phase' = next

\* the same inside a phase handler, whose return code is the call's
Returned(op, mar, mdr, out) == Called(op, mar, mdr, out, out.rc)

\* ------------------------------------------------------------------ initial state
\* nothing has been assembled
NoInstruction ==
  [op |-> "none", form |-> "none", opcode |-> 0, type |-> 0, reg1 |-> 0, reg2 |-> 0,
   immediate |-> 0, operand |-> 0, error |-> FALSE, machineCode |-> <<>>]

\* the words behind the data file keep the MEM_FILLER of initialize_system()
ImageWord(a) == IF a < FileWords THEN ToBytes(4096 + 257 * a) ELSE FillerWord
\* data memory after a data file whose first word is w0
ImageWith(w0) ==
  [t \in DataTags |->
     [o \in Offsets |-> IF t = 0 /\ o = 0 THEN w0 ELSE ImageWord(t * BLOCK_SIZE + o)]]
DataImages == {ImageWith(ImageWord(0))}
\* addresses a data file may hold: the first word behind data memory (InOrder
\* the payload of cache block 0, Reversed code[0]), the words that lie InOrder
\* on the flags of dictionary[0], on the tag of dictionary[1], on registers[4],
\* on state.PC, on state.MDR and on state.IR, and the limit of the range check
Pointers ==
  {DataWords, WordOf(DictAt), WordOf(DictAt + ENTRY_SIZE + TAG_AT), WordOf(RegsAt) + 4,
   WordOf(StateAt), WordOf(StateAt) + 1, WordOf(StateAt + IR_AT), AddrLimit}
\* a data file whose first word is such an address
PointerImages == {ImageWith(ToBytes(p)) : p \in Pointers}

\* initialize_system(), then load_files() with code image c and data image d;
\* what initialize_system() does not set is zero, as the loader leaves it.
\* The build is one of the two.
InitWith(c, d) ==
  /\ build \in {InOrder, Reversed}
  /\ PC = 0 /\ MDR = 0 /\ MAR = 0
  /\ IR = <<0, 0>>
  /\ ALU_x = 0 /\ ALU_y = 0 /\ ALU_z = 0
  /\ registers = [r \in 0 .. (REGISTERS - 1) |-> 0]
  /\ code = c
  /\ data = d
  /\ data_cache = [b \in Blocks |-> FillerBlock]
  /\ dictionary = [b \in Blocks |->
                     [valid |-> FALSE, valid_byte |-> 0, dirty |-> FALSE, dirty_byte |-> 0,
                      ref_count |-> ULong(0), tag |-> 0]]
  /\ cache_hits = ULong(0)
  /\ pad = [off \in {} |-> 0]
  /\ current_ref_count = 1
  /\ branch_count = 0
  /\ current_phase = FETCH_INSTR
  /\ flushed = FALSE
  /\ flat = [a \in 0 .. (DataWords - 1) |-> FromBytes(d[addr2tag(a)][addr2offset(a)])]
  /\ last = NoCall
  /\ recency = <<>>
  /\ n_access = 0
  /\ n_inrange = 0
  /\ n_resident = 0
  /\ asm = NoInstruction
  /\ fetched = 0
  /\ n_fetch = 0

EmptyCode == [a \in 0 .. (CODE_SIZE - 1) |-> FillerWord]

\* ------------------------------------------------------------------ the cache driven call by call
\* cache_read() and cache_write() called with MAR (and MDR) set by the caller,
\* as fetch_operands() and write_back() do, and main()'s final flush.
\* The addresses: block starts inside data memory, the first word beyond it
\* (InOrder the payload of cache block 0, Reversed code[0]), the words that
\* lie InOrder on the tag of dictionary[0], on the flags, the ref_count and
\* the tag of dictionary[1], on cache_hits, registers[0] and state.PC, and the
\* words on either side of the limit of the range check
MARValues ==
  {t * BLOCK_SIZE : t \in 0 .. (CACHE_BLOCKS - 2)}
    \cup {DataWords, WordOf(DictAt + TAG_AT),
          WordOf(DictAt + ENTRY_SIZE), WordOf(DictAt + ENTRY_SIZE) + 1,
          WordOf(DictAt + ENTRY_SIZE + REF_AT),
          WordOf(DictAt + ENTRY_SIZE + TAG_AT), WordOf(DictAt + ENTRY_SIZE + TAG_AT) + 1,
          WordOf(HitsAt), WordOf(RegsAt), WordOf(StateAt), AddrLimit - 2, AddrLimit}
\* every call stores a value of its own, with two different bytes
MDRValues == {258 + n_access}

InitCache == \E d \in DataImages : InitWith(EmptyCode, d)

CallRead(mar, cap) ==
  /\ ~flushed /\ current_phase # SIGSEGV
  /\ n_access < cap
  /\ Called("read", mar, MDR, cache_read([M EXCEPT !.MAR = mar]), current_phase)
  /\ UNCHANGED <<branch_count, flushed>>

CallWrite(mar, mdr, cap) ==
  /\ ~flushed /\ current_phase # SIGSEGV
  /\ n_access < cap
  /\ Called("write", mar, mdr, cache_write([M EXCEPT !.MAR = mar, !.MDR = mdr]),
            current_phase)
  /\ UNCHANGED <<branch_count, flushed>>

\* the loop of write_block() calls leaves the statics m, if it returns
Flushed(m) ==
  \E fate \in Fates(m) :
    IF fate = "killed" THEN Killed(MAR, MDR)
    ELSE /\ Commit(m)
         /\ flushed' = TRUE
         /\ last' = [NoCall EXCEPT !.op = "flush", !.pre = dictionary]
         /\ UNCHANGED <<branch_count, current_phase, flat, recency, n_access, n_inrange,
                        n_resident, asm, fetched, n_fetch>>

\* main(), lines 919-921: write back the contents of the cache
FlushCache ==
  /\ ~flushed /\ current_phase # SIGSEGV
  /\ Flushed(FlushFrom(M, 0))

NextCache ==
  \/ \E mar \in MARValues : CallRead(mar, MaxCalls)
  \/ \E mar \in MARValues, mdr \in MDRValues : CallWrite(mar, mdr, MaxCalls)
  \/ FlushCache

SpecCache == InitCache /\ [][NextCache]_vars

\* the same, with every address inside data memory: two words of block 0 and
\* the first word of every other block
InRangeValues == {0, 1} \cup {t * BLOCK_SIZE : t \in 1 .. CACHE_BLOCKS} \cup {DataWords - 1}

NextInRange ==
  \/ \E mar \in InRangeValues : CallRead(mar, MaxAccess)
  \/ \E mar \in InRangeValues, mdr \in MDRValues : CallWrite(mar, mdr, MaxAccess)
  \/ FlushCache

InitInRange == \E d \in DataImages : InitWith(EmptyCode, d)

SpecInRange == InitInRange /\ [][NextInRange]_vars

\* ------------------------------------------------------------------ instruction fields
RECURSIVE And16(_, _)
And16(x, y) ==
  IF x = 0 \/ y = 0 THEN 0 ELSE (x % 2) * (y % 2) + 2 * And16(x \div 2, y \div 2)
RECURSIVE Or16(_, _)
Or16(x, y) ==
  IF x = 0 THEN y ELSE IF y = 0 THEN x
  ELSE (IF x % 2 = 1 \/ y % 2 = 1 THEN 1 ELSE 0) + 2 * Or16(x \div 2, y \div 2)
RECURSIVE Xor16(_, _)
Xor16(x, y) ==
  IF x = 0 THEN y ELSE IF y = 0 THEN x
  ELSE ((x + y) % 2) + 2 * Xor16(x \div 2, y \div 2)

\* (short)x
Signed(x) == IF x >= 32768 THEN x - 65536 ELSE x

\* opcode(): IR[0] >> 5;  mode(): (IR[0] >> 2) & 0x07
opcode(ir) == ir[1] \div 32
mode(ir) == (ir[1] \div 4) % 8
\* ((IR[0] & 0x03) << 2 | IR[1] >> 6) & 0x0F
get_reg1(ir) == ((ir[1] % 4) * 4 + (ir[2] \div 64)) % 16
\* (IR[1] >> 2) & 0x0F
get_reg2(ir) == (ir[2] \div 4) % 16
\* a literal taken without sign extension
extract_literal_unsigned(ir) == ir[2] % 64

\* extract_literal(): the low 6 bits of IR[1], sign-extended from bit 5 in a
\* (signed) char; the value is given as the unsigned short it converts to
extract_literal(ir) ==
  LET value == ir[2] % 64 IN
    IF value >= 32 THEN 65536 - 256 + Or16(value, 192) ELSE value

\* ------------------------------------------------------------------ phase handlers
\* Each handler is one step of main()'s loop: current_phase = control_unit[current_phase]().

\* a fetch that stops one word early
pc_in_range_short(pc) == pc < CODE_SIZE - 1

\* if (state.PC < CODE_SIZE)
pc_in_range(pc) == pc < CODE_SIZE

fetch_instr ==
  /\ current_phase = FETCH_INSTR
  /\ IF pc_in_range(PC)
       THEN /\ MAR' = PC
            /\ MDR' = FromBytes(code[PC])
            /\ IR' = <<HiByte(FromBytes(code[PC])), LoByte(FromBytes(code[PC]))>>
            /\ current_phase' = DECODE_INSTR
       ELSE /\ current_phase' = ILLEGAL_ADDRESS
            /\ UNCHANGED <<MAR, MDR, IR>>
  /\ fetched' = PC
  /\ n_fetch' = n_fetch + 1
  /\ UNCHANGED <<PC, ALU_x, ALU_y, ALU_z, registers, code, branch_count, flushed>>
  /\ UNCHANGED memVars
  /\ UNCHANGED <<flat, last, recency, n_access, n_inrange, n_resident, asm>>

\* a decoder that rejects the MOVE of mode 5 as well
decode_rc_rejects_5(ir) ==
  IF opcode(ir) \in {ADD_OPCODE, SUB_OPCODE, AND_OPCODE, OR_OPCODE, XOR_OPCODE, SHIFT_OPCODE}
    THEN IF mode(ir) > 1 THEN ILLEGAL_OPCODE ELSE FETCH_OPERANDS
  ELSE IF opcode(ir) = MOVE_OPCODE
    THEN IF And16(mode(ir), 2) # 0 \/ mode(ir) = 5 THEN ILLEGAL_OPCODE ELSE CALCULATE_EA
  ELSE IF opcode(ir) = BRANCH_OPCODE
    THEN IF mode(ir) = 7 THEN ILLEGAL_OPCODE ELSE FETCH_OPERANDS
  ELSE ILLEGAL_OPCODE

\* a decoder that lets every BRANCH mode through
decode_rc_any_branch(ir) ==
  IF opcode(ir) \in {ADD_OPCODE, SUB_OPCODE, AND_OPCODE, OR_OPCODE, XOR_OPCODE, SHIFT_OPCODE}
    THEN IF mode(ir) > 1 THEN ILLEGAL_OPCODE ELSE FETCH_OPERANDS
  ELSE IF opcode(ir) = MOVE_OPCODE
    THEN IF And16(mode(ir), 2) # 0 THEN ILLEGAL_OPCODE ELSE CALCULATE_EA
  ELSE FETCH_OPERANDS

\* a decoder that sends MOVE straight to FETCH_OPERANDS
decode_rc_no_ea(ir) ==
  IF opcode(ir) \in {ADD_OPCODE, SUB_OPCODE, AND_OPCODE, OR_OPCODE, XOR_OPCODE, SHIFT_OPCODE}
    THEN IF mode(ir) > 1 THEN ILLEGAL_OPCODE ELSE FETCH_OPERANDS
  ELSE IF opcode(ir) = MOVE_OPCODE
    THEN IF And16(mode(ir), 2) # 0 THEN ILLEGAL_OPCODE ELSE FETCH_OPERANDS
  ELSE IF opcode(ir) = BRANCH_OPCODE
    THEN IF mode(ir) = 7 THEN ILLEGAL_OPCODE ELSE FETCH_OPERANDS
  ELSE ILLEGAL_OPCODE

decode_rc(ir) ==
  IF opcode(ir) \in {ADD_OPCODE, SUB_OPCODE, AND_OPCODE, OR_OPCODE, XOR_OPCODE, SHIFT_OPCODE}
    THEN IF mode(ir) > 1 THEN ILLEGAL_OPCODE ELSE FETCH_OPERANDS
  ELSE IF opcode(ir) = MOVE_OPCODE
    THEN IF And16(mode(ir), 2) # 0 THEN ILLEGAL_OPCODE ELSE CALCULATE_EA
  ELSE IF opcode(ir) = BRANCH_OPCODE
    THEN IF mode(ir) = 7 THEN ILLEGAL_OPCODE ELSE FETCH_OPERANDS
  ELSE ILLEGAL_OPCODE

decode_instr ==
  /\ current_phase = DECODE_INSTR
  /\ current_phase' = decode_rc(IR)
  /\ UNCHANGED cpuVars
  /\ UNCHANGED <<flushed>>
  /\ UNCHANGED memVars
  /\ UNCHANGED histVars

\* an address calculation that takes the second operand for a store
ea_reg_second(ir) ==
  IF And16(mode(ir), 4) # 0 THEN get_reg2(ir)
  ELSE IF And16(mode(ir), 1) # 0 THEN get_reg2(ir)
  ELSE 255

\* the register calculate_ea() takes the address from, 0xFF for none
ea_reg(ir) ==
  IF And16(mode(ir), 4) # 0 THEN get_reg1(ir)
  ELSE IF And16(mode(ir), 1) # 0 THEN get_reg2(ir)
  ELSE 255

calculate_ea ==
  /\ current_phase = CALCULATE_EA
  /\ MAR' = IF ea_reg(IR) # 255 THEN registers[ea_reg(IR)] ELSE MAR
  /\ current_phase' = FETCH_OPERANDS
  /\ UNCHANGED <<PC, MDR, IR, ALU_x, ALU_y, ALU_z, registers, code, branch_count,
                 flushed>>
  /\ UNCHANGED memVars
  /\ UNCHANGED histVars

fetch_operands ==
  /\ current_phase = FETCH_OPERANDS
  /\ IF opcode(IR) = MOVE_OPCODE
       THEN IF And16(mode(IR), 1) = 0
              THEN /\ MDR' = extract_literal(IR)
                   /\ current_phase' = WRITE_BACK
                   /\ UNCHANGED <<PC, MAR, IR, ALU_x, ALU_y, ALU_z, registers, code>>
                   /\ UNCHANGED memVars
                   /\ UNCHANGED histVars
            ELSE IF And16(mode(IR), 4) # 0
              THEN /\ MDR' = registers[get_reg2(IR)]
                   /\ current_phase' = WRITE_BACK
                   /\ UNCHANGED <<PC, MAR, IR, ALU_x, ALU_y, ALU_z, registers, code>>
                   /\ UNCHANGED memVars
                   /\ UNCHANGED histVars
            ELSE Returned("read", MAR, MDR, cache_read(M))
       ELSE /\ ALU_x' = registers[get_reg1(IR)]
            /\ ALU_y' = IF opcode(IR) \in {ADD_OPCODE, SUB_OPCODE, AND_OPCODE, OR_OPCODE,
                                           XOR_OPCODE}
                          THEN IF mode(IR) = 0 THEN extract_literal(IR)
                               ELSE registers[get_reg2(IR)]
                        ELSE IF opcode(IR) = BRANCH_OPCODE THEN extract_literal(IR)
                        ELSE ALU_y
            /\ current_phase' = EXECUTE_INSTR
            /\ UNCHANGED <<PC, MAR, MDR, IR, ALU_z, registers, code>>
            /\ UNCHANGED memVars
            /\ UNCHANGED histVars
  /\ UNCHANGED <<branch_count, flushed>>

\* a comparison of the registers as unsigned values
branch_taken_unsigned(md, x, r0) ==
  \/ md = 1 /\ x = r0
  \/ md = 2 /\ x # r0
  \/ md = 3 /\ x < r0
  \/ md = 4 /\ x > r0
  \/ md = 5 /\ x <= r0
  \/ md = 6 /\ x >= r0

\* the comparison of a conditional branch, modes 1 to 6
branch_taken(md, x, r0) ==
  \/ md = 1 /\ Signed(x) = Signed(r0)
  \/ md = 2 /\ Signed(x) # Signed(r0)
  \/ md = 3 /\ Signed(x) < Signed(r0)
  \/ md = 4 /\ Signed(x) > Signed(r0)
  \/ md = 5 /\ Signed(x) <= Signed(r0)
  \/ md = 6 /\ Signed(x) >= Signed(r0)

\* an ALU whose jump adds the literal to the register
alu_jump_offset(op, md, x, y, pc, r0, z) ==
  IF op = ADD_OPCODE THEN U16(Signed(x) + Signed(y) + 65536)
  ELSE IF op = SUB_OPCODE THEN U16(Signed(x) - Signed(y) + 65536)
  ELSE IF op = AND_OPCODE THEN And16(x, y)
  ELSE IF op = OR_OPCODE THEN Or16(x, y)
  ELSE IF op = XOR_OPCODE THEN Xor16(x, y)
  ELSE IF op = SHIFT_OPCODE THEN (IF md = 0 THEN x \div 2 ELSE U16(x * 2))
  ELSE IF op = BRANCH_OPCODE
    THEN IF md = 0 THEN U16(x + y)
         ELSE IF branch_taken(md, x, r0) THEN U16(pc + y + 65536 - 1) ELSE pc
  ELSE z

\* ALU_z after execute_instr()
alu(op, md, x, y, pc, r0, z) ==
  IF op = ADD_OPCODE THEN U16(Signed(x) + Signed(y) + 65536)
  ELSE IF op = SUB_OPCODE THEN U16(Signed(x) - Signed(y) + 65536)
  ELSE IF op = AND_OPCODE THEN And16(x, y)
  ELSE IF op = OR_OPCODE THEN Or16(x, y)
  ELSE IF op = XOR_OPCODE THEN Xor16(x, y)
  ELSE IF op = SHIFT_OPCODE THEN (IF md = 0 THEN x \div 2 ELSE U16(x * 2))
  ELSE IF op = BRANCH_OPCODE
    THEN IF md = 0 THEN x
         ELSE IF branch_taken(md, x, r0) THEN U16(pc + y + 65536 - 1) ELSE pc
  ELSE z

\* a count of every BRANCH instruction, taken or not
counts_branch_always(op, md, x, r0) == op = BRANCH_OPCODE

\* the instruction counts as a branch: a jump or a taken conditional branch
counts_branch(op, md, x, r0) ==
  op = BRANCH_OPCODE /\ (md = 0 \/ branch_taken(md, x, r0))

execute_instr ==
  /\ current_phase = EXECUTE_INSTR
  /\ ALU_z' = alu(opcode(IR), mode(IR), ALU_x, ALU_y, PC, registers[0], ALU_z)
  /\ IF counts_branch(opcode(IR), mode(IR), ALU_x, registers[0])
       THEN /\ branch_count' = branch_count + 1
            /\ current_phase' = IF branch_count + 1 > BRANCH_LIMIT
                                  THEN INFINITE_LOOP ELSE WRITE_BACK
       ELSE /\ branch_count' = branch_count
            /\ current_phase' = WRITE_BACK
  /\ UNCHANGED <<PC, MDR, MAR, IR, ALU_x, ALU_y, registers, code, flushed>>
  /\ UNCHANGED memVars
  /\ UNCHANGED histVars

\* state.PC++ after the call
NextPC(out) == [out EXCEPT !.m.PC = U16(@ + 1)]

write_back ==
  /\ current_phase = WRITE_BACK
  /\ IF opcode(IR) \in {ADD_OPCODE, SUB_OPCODE, AND_OPCODE, OR_OPCODE, XOR_OPCODE, SHIFT_OPCODE}
       THEN /\ registers' = [registers EXCEPT ![get_reg1(IR)] = ALU_z]
            /\ PC' = U16(PC + 1)
            /\ current_phase' = FETCH_INSTR
            /\ UNCHANGED <<MAR, MDR, IR, ALU_x, ALU_y, ALU_z, code>>
            /\ UNCHANGED memVars
            /\ UNCHANGED histVars
     ELSE IF opcode(IR) = BRANCH_OPCODE
       THEN /\ PC' = U16(ALU_z + 1)
            /\ current_phase' = FETCH_INSTR
            /\ UNCHANGED <<MAR, MDR, IR, ALU_x, ALU_y, ALU_z, registers, code>>
            /\ UNCHANGED memVars
            /\ UNCHANGED histVars
     ELSE IF And16(mode(IR), 4) # 0
       THEN Returned("write", MAR, MDR, NextPC(cache_write(M)))
       ELSE /\ registers' = [registers EXCEPT ![get_reg1(IR)] = MDR]
            /\ PC' = U16(PC + 1)
            /\ current_phase' = FETCH_INSTR
            /\ UNCHANGED <<MAR, MDR, IR, ALU_x, ALU_y, ALU_z, code>>
            /\ UNCHANGED memVars
            /\ UNCHANGED histVars
  /\ UNCHANGED <<branch_count, flushed>>

\* main(): the loop has ended with a terminal phase; the cache is written back
final_flush ==
  /\ current_phase \in TerminalPhases
  /\ FlushCache

\* ------------------------------------------------------------------ code images
\* the 16-bit instruction word: opcode(3) mode(3) r1(4) and six low bits that
\* hold r2(4) and two literal bits, or a 6-bit literal
Enc(op, md, r1, low6) == ((op * 8 + md) * 16 + r1) * 64 + low6
\* the word of two MEM_FILLER bytes that initialize_system() fills code memory with
Illegal == FromBytes(FillerWord)

\* MOVE r1 <- literal;  MOVE r1 <- [r2];  MOVE [r1] <- literal;  MOVE [r1] <- r2
MovI(r1, lit) == Enc(MOVE_OPCODE, 0, r1, lit % 64)
Load(r1, r2) == Enc(MOVE_OPCODE, 1, r1, r2 * 4)
StoreI(r1, lit) == Enc(MOVE_OPCODE, 4, r1, lit % 64)
StoreR(r1, r2) == Enc(MOVE_OPCODE, 5, r1, r2 * 4 + 1)
AddI(r1, lit) == Enc(ADD_OPCODE, 0, r1, lit % 64)
Jump(r1) == Enc(BRANCH_OPCODE, 0, r1, 0)
Branch(md, r1, lit) == Enc(BRANCH_OPCODE, md, r1, lit % 64)

\* op r1 <- r1 op literal;  op r1 <- r1 op r2
OpI(op, r1, lit) == Enc(op, 0, r1, lit % 64)
OpR(op, r1, r2) == Enc(op, 1, r1, r2 * 4)
\* literals that set a register: 0, 1, a mixed bit pattern, -32, -1
SetValues == {0, 1, 21, 32, 63}

\* the instructions programs are built from
Instructions ==
  {MovI(1, BLOCK_SIZE), MovI(1, CODE_SIZE - 1),
   StoreI(1, 5), StoreI(0, 9), StoreR(2, 1), Load(2, 1), Load(1, 0),
   AddI(1, BLOCK_SIZE), Jump(1), Branch(1, 0, 0), Branch(2, 1, 2), Illegal}

Pad(prog) ==
  [a \in 0 .. (CODE_SIZE - 1) |-> IF a < Len(prog) THEN ToBytes(prog[a + 1]) ELSE FillerWord]

\* a jump through R1 with R0 and the literal field set or not; R1 = -1 loops
JumpPrograms ==
  {<<MovI(0, a), MovI(1, b), Enc(BRANCH_OPCODE, 0, 1, lit)>>
     : a \in {0, 5}, b \in {2, 63}, lit \in {0, 37}}
\* a conditional branch on R1 against R0; the literal 0 loops
BranchPrograms ==
  {<<MovI(0, a), MovI(1, b), Branch(md, 1, lit)>>
     : a \in {0, 1, 32, 63}, b \in {0, 1, 32, 63}, md \in 1 .. 6, lit \in {0, 2}}
\* a loop of stores that walks through data memory and evicts what it stored,
\* stores and loads with a later eviction, a run off the end of code memory
StorePrograms ==
  {<<AddI(1, BLOCK_SIZE + 1), StoreI(1, 5), StoreI(0, 9), Branch(2, 1, 61)>>,
   <<StoreI(0, 9), MovI(1, BLOCK_SIZE), StoreI(1, 5), Load(2, 0)>>,
   <<AddI(1, BLOCK_SIZE), StoreR(1, 1), Branch(3, 0, 62), Jump(0)>>,
   [i \in 1 .. CODE_SIZE |-> AddI(1, 1)]}

\* every program of two instructions, and some longer ones
Programs ==
  {<<i, j>> : i, j \in Instructions}
  \* one instruction of every opcode and mode
  \cup {<<Enc(op, md, 1, 0)>> : op \in 0 .. 7, md \in 0 .. 7}
  \* a store of a literal, negative or not, read back
  \cup {<<MovI(1, a), StoreI(1, lit), Load(2, 1)>> : a \in {1, BLOCK_SIZE}, lit \in {9, 60}}
  \* arithmetic and logic on a register and a literal or a second register, shifts
  \cup {<<MovI(1, b), OpI(op, 1, lit)>>
          : b \in SetValues, op \in ADD_OPCODE .. XOR_OPCODE, lit \in {1, 42, 63}}
  \cup {<<MovI(1, b), MovI(2, c), OpR(op, 1, 2)>>
          : b \in SetValues, c \in SetValues, op \in ADD_OPCODE .. XOR_OPCODE}
  \cup {<<MovI(1, b), Enc(SHIFT_OPCODE, md, 1, 0)>> : b \in SetValues, md \in {0, 1}}
  \cup JumpPrograms \cup BranchPrograms \cup StorePrograms

\* R1 is loaded with the first word of the data file and is the address of a
\* load or a store; in the longer programs two misses follow that store, the
\* second of which evicts the block it left in the cache; in the last the
\* store is the later of two, so that the flush writes its block back first.
\* Every run from these programs ends on either layout, so the phase loop is
\* followed to its end.
PointerPrograms ==
  {<<Load(1, 0), i>> : i \in {Load(2, 1), StoreI(1, 5), StoreR(1, 1)}}
  \cup {<<Load(1, 0), StoreI(1, 5), MovI(2, BLOCK_SIZE), StoreI(2, 9), i>>
          : i \in {StoreI(0, 9), StoreR(0, 2), Load(3, 0)}}
  \cup {<<Load(1, 0), MovI(2, BLOCK_SIZE), StoreI(2, 9), StoreI(1, 63)>>}

Init ==
  \/ \E prog \in Programs, d \in DataImages : InitWith(Pad(prog), d)
  \/ \E prog \in PointerPrograms, d \in PointerImages : InitWith(Pad(prog), d)

Next ==
  \/ fetch_instr
  \/ decode_instr
  \/ calculate_ea
  \/ fetch_operands
  \/ execute_instr
  \/ write_back
  \/ final_flush

Spec == Init /\ [][Next]_vars

\* the programs termination depends on: jumps, branches, the store loops and
\* the stores through an address read from the data file
InitLive ==
  \/ \E prog \in JumpPrograms \cup BranchPrograms \cup StorePrograms, d \in DataImages :
       InitWith(Pad(prog), d)
  \/ \E prog \in PointerPrograms, d \in PointerImages : InitWith(Pad(prog), d)

\* main()'s while loop calls the handler of the current phase again and again,
\* and the flush follows the loop: a step that can be taken is taken (weak
\* fairness of Next, which is enabled until the flush is done or the process
\* is killed)
SpecLive ==
  InitLive /\ [][Next]_vars /\ ([]<>(flushed \/ current_phase = SIGSEGV) \/ []<><<Next>>_vars)

\* ------------------------------------------------------------------ the assembler
\* x & 0x03 of a short, negative or not (two's complement)
Low2(x) == ((x % 4) + 4) % 4

\* Instruction::encode(): the two bytes of an instruction
encode(op, type, reg1, reg2, immediate) ==
  <<Or16(Or16(op * 32, type * 4), reg1 \div 4) % 256,
    Or16(Or16((reg1 % 4) * 64, reg2 * 4), Low2(immediate)) % 256>>

\* the second operand of a source line: a register Rn or a number
RegOperand(n) == [reg |-> TRUE, n |-> n]
ImmOperand(n) == [reg |-> FALSE, n |-> n]

\* Assembler::parseInstruction() on "OP Rreg1 operand": the Instruction it
\* pushes.  Only ADD, SUB, AND, OR and XOR read their operands; no operand
\* makes it throw.
parseInstruction(op, reg1, operand) ==
  IF op \in {ADD_OPCODE, SUB_OPCODE, AND_OPCODE, OR_OPCODE, XOR_OPCODE}
    THEN IF operand.reg
           THEN [opcode |-> op, type |-> 1, reg1 |-> reg1, reg2 |-> operand.n, immediate |-> 0]
           ELSE [opcode |-> op, type |-> 0, reg1 |-> reg1, reg2 |-> 0, immediate |-> operand.n]
    ELSE [opcode |-> op, type |-> 0, reg1 |-> 0, reg2 |-> 0, immediate |-> 0]

\* the operands of the source lines assembled: registers, and numbers inside
\* and outside the 6-bit signed range
LineOperands ==
  {RegOperand(n) : n \in {0, 2, 9, 15}}
  \cup {ImmOperand(n) : n \in {-33, -32, -1, 0, 3, 5, 31, 32, 100}}

\* an Instruction is built from its fields and encoded; the two bytes are the
\* object file, which load_files() reads into code memory
AsmEncode ==
  /\ asm.op = "none" /\ current_phase = FETCH_INSTR
  /\ \E op \in 0 .. 7, type \in 0 .. 7, reg1 \in 0 .. (REGISTERS - 1),
        f \in ({"reg"} \X (0 .. (REGISTERS - 1)) \X {0}) \cup ({"imm"} \X {0} \X (-32 .. 31)) :
       /\ asm' = [op |-> "encode", form |-> f[1], opcode |-> op, type |-> type, reg1 |-> reg1,
                  reg2 |-> f[2], immediate |-> f[3], operand |-> f[3], error |-> FALSE,
                  machineCode |-> encode(op, type, reg1, f[2], f[3])]
       /\ code' = [code EXCEPT ![0] = encode(op, type, reg1, f[2], f[3])]
  /\ UNCHANGED <<PC, MDR, MAR, IR, ALU_x, ALU_y, ALU_z, registers, branch_count,
                 current_phase, flushed>>
  /\ UNCHANGED memVars
  /\ UNCHANGED <<flat, last, recency, n_access, n_inrange, n_resident, fetched, n_fetch>>

\* Assembler::assemble() on one source line: parseInstruction(), then encode()
AsmLine ==
  /\ asm.op = "none" /\ current_phase = FETCH_INSTR
  /\ \E op \in 0 .. 7, reg1 \in {0, 1, 15}, operand \in LineOperands :
       LET i == parseInstruction(op, reg1, operand)
           bytes == encode(i.opcode, i.type, i.reg1, i.reg2, i.immediate)
       IN /\ asm' = [op |-> "line", form |-> IF operand.reg THEN "reg" ELSE "imm",
                     opcode |-> i.opcode, type |-> i.type, reg1 |-> i.reg1, reg2 |-> i.reg2,
                     immediate |-> i.immediate, operand |-> operand.n, error |-> FALSE,
                     machineCode |-> bytes]
          /\ code' = [code EXCEPT ![0] = bytes]
  /\ UNCHANGED <<PC, MDR, MAR, IR, ALU_x, ALU_y, ALU_z, registers, branch_count,
                 current_phase, flushed>>
  /\ UNCHANGED memVars
  /\ UNCHANGED <<flat, last, recency, n_access, n_inrange, n_resident, fetched, n_fetch>>

\* the assembler's output loaded, fetched and decoded by the simulator
NextAsm ==
  \/ AsmEncode
  \/ AsmLine
  \/ fetch_instr
  \/ decode_instr

SpecAsm ==
  (\E d \in DataImages : InitWith(EmptyCode, d)) /\ [][NextAsm]_vars

\* ------------------------------------------------------------------ properties of the cache
Accepted == last.op \in {"read", "write"} /\ last.rc # ILLEGAL_ADDRESS
\* the last call missed with every entry valid, so it evicted one
Evicted == Accepted /\ ~last.hit /\ \A b \in Blocks : last.pre[b].valid

\* C1: with every address inside data memory, cache_read at A leaves in MDR the
\* value most recently written to A, or A's initial word: the cache and data
\* memory together behave like one flat word-addressed memory.
C1_ReadsLastWrite ==
  (last.op = "read" /\ last.rc = WRITE_BACK) => MDR = flat[last.mar]

\* a read that misses with the cache full and returns a value stored earlier,
\* which an eviction has written back in between
C1_Witness ==
  /\ last.op = "read" /\ last.rc = WRITE_BACK
  /\ Evicted
  /\ MDR = flat[last.mar]
  /\ MDR \in 258 .. (258 + MaxAccess)

\* C3: every valid entry that is not dirty has a payload equal, byte for byte,
\* to data-memory block data[tag].
C3_CleanEqualsMemory ==
  \A b \in Blocks :
    (dictionary[b].valid /\ ~dictionary[b].dirty) =>
      /\ dictionary[b].tag \in DataTags
      /\ data_cache[b] = data[dictionary[b].tag]

\* C4: no two valid dictionary entries carry the same tag.
C4_UniqueTags ==
  \A i, j \in Blocks :
    (i # j /\ dictionary[i].valid /\ dictionary[j].valid) =>
      dictionary[i].tag # dictionary[j].tag

\* C5: after every completed cache_read or cache_write the ref_count values of
\* the valid entries are pairwise distinct and each is less than
\* current_ref_count.
C5_DistinctStamps ==
  Accepted =>
    /\ \A b \in Blocks :
         dictionary[b].valid => ULLess(dictionary[b].ref_count, ULong(current_ref_count))
    /\ \A i, j \in Blocks :
         (i # j /\ dictionary[i].valid /\ dictionary[j].valid) =>
           dictionary[i].ref_count # dictionary[j].ref_count

\* C6: a miss with every entry valid evicts the entry whose last access is the
\* oldest, the victim of a reference LRU list, and invalidates no other entry.
C6_EvictsLRU ==
  Evicted =>
    /\ last.pre[last.block_id].tag = last.lru
    /\ \A b \in Blocks : dictionary[b].valid

\* C7: current_ref_count - 1 is the number of cache_read and cache_write calls
\* made with an address in range, that is, inside data memory, and cache_hits
\* the number of those that found their tag resident, so that cache_hits is
\* at most current_ref_count - 1.
C7_Counts ==
  /\ current_ref_count - 1 = n_inrange
  /\ cache_hits = ULong(n_resident)
  /\ ~ULLess(ULong(current_ref_count - 1), cache_hits)

\* C9: cache_read and cache_write return ILLEGAL_ADDRESS exactly when
\* MAR >= DATA_SIZE * BLOCK_SIZE * WORD_SIZE, and a rejected call leaves the
\* dictionary, the payloads, data memory and both counters unchanged.
C9_RangeCheck ==
  [][last'.op \in {"read", "write"} =>
       /\ (last'.rc = ILLEGAL_ADDRESS) <=> (last'.mar >= DATA_SIZE * BLOCK_SIZE * WORD_SIZE)
       /\ (last'.rc = ILLEGAL_ADDRESS) =>
            UNCHANGED <<dictionary, data_cache, data, cache_hits, current_ref_count>>]_vars

\* a call at the limit is rejected while the cache holds the block of the last
\* accepted address, limit - 2, dirty
C9_Witness ==
  /\ last.op = "write" /\ last.rc = ILLEGAL_ADDRESS
  /\ last.mar = DATA_SIZE * BLOCK_SIZE * WORD_SIZE
  /\ \E b \in Blocks :
       /\ dictionary[b].valid /\ dictionary[b].dirty
       /\ dictionary[b].tag = addr2tag(DATA_SIZE * BLOCK_SIZE * WORD_SIZE - 2)

\* ------------------------------------------------------------------ properties of the run
\* the word data memory holds at word address a
DataWord(a) == FromBytes(data[addr2tag(a)][addr2offset(a)])

\* C2: after the final flush, whatever terminal phase ended the run, every
\* entry is invalid and not dirty and every data-memory word holds the last
\* value stored to it through the cache, or its initial value.
\* No dirty payload is lost: the flush copies the payload of every valid
\* dirty entry to its block data[tag] of data memory.
C2_FlushKeepsStores ==
  /\ [](flushed =>
          /\ \A b \in Blocks : ~dictionary[b].valid /\ ~dictionary[b].dirty
          /\ \A a \in 0 .. (DataWords - 1) : DataWord(a) = flat[a])
  /\ [][(~flushed /\ flushed') =>
          \A b \in Blocks :
            (dictionary[b].valid /\ dictionary[b].dirty) =>
              /\ dictionary[b].tag \in DataTags
              /\ data'[dictionary[b].tag] = data_cache[b]]_vars

\* C8: a MOVE whose MAR lies beyond the DATA_SIZE * BLOCK_SIZE words of data
\* memory halts with ILLEGAL_ADDRESS, so an accepted access and every valid
\* entry use a block index below DATA_SIZE.
C8_TagsInsideData ==
  /\ Accepted => addr2tag(last.mar) < DATA_SIZE
  /\ \A b \in Blocks : dictionary[b].valid => dictionary[b].tag < DATA_SIZE

\* C10: FETCH_INSTR yields ILLEGAL_ADDRESS if and only if PC >= CODE_SIZE;
\* otherwise it loads IR with the two bytes of code[PC] and moves to
\* DECODE_INSTR; it changes neither PC, the registers, the cache nor data memory.
C10_Fetch ==
  [][current_phase = FETCH_INSTR =>
       /\ (current_phase' = ILLEGAL_ADDRESS) <=> (PC >= CODE_SIZE)
       /\ (PC < CODE_SIZE) => (IR' = code[PC] /\ current_phase' = DECODE_INSTR)
       /\ UNCHANGED <<PC, registers, data, data_cache, dictionary,
                      cache_hits, current_ref_count>>]_vars

\* the fetch at PC = CODE_SIZE has failed right after the instruction fetched
\* at PC = CODE_SIZE - 1 retired
C10_Witness ==
  /\ current_phase = ILLEGAL_ADDRESS
  /\ last.rc # ILLEGAL_ADDRESS
  /\ PC = CODE_SIZE
  /\ IR = code[CODE_SIZE - 1]
  /\ IR # FillerWord

\* ------------------------------------------------------------------ properties of the decoder
\* the (opcode, mode) pairs listed as valid
ValidPair(op, md) ==
  \/ op \in {ADD_OPCODE, SUB_OPCODE, AND_OPCODE, OR_OPCODE, XOR_OPCODE, SHIFT_OPCODE}
       /\ md \in {0, 1}
  \/ op = MOVE_OPCODE /\ md \in {0, 1, 4, 5}
  \/ op = BRANCH_OPCODE /\ md \in 0 .. 6

\* C11: DECODE_INSTR yields ILLEGAL_OPCODE if and only if the (opcode, mode)
\* pair of IR is not listed as valid; the filler word 0xFFFF is illegal, so a
\* fetched code word that was never loaded halts the run with ILLEGAL_OPCODE.
C11_Decode ==
  [][/\ current_phase = DECODE_INSTR =>
          ((current_phase' = ILLEGAL_OPCODE) <=> ~ValidPair(opcode(IR), mode(IR)))
     /\ (current_phase = DECODE_INSTR /\ IR = FillerWord) =>
          current_phase' = ILLEGAL_OPCODE
     /\ (current_phase = FETCH_INSTR /\ PC < CODE_SIZE /\ code[PC] = FillerWord) =>
          IR' = FillerWord]_vars

\* the run went past its last instruction and halted on the filler word
C11_Witness ==
  /\ current_phase = ILLEGAL_OPCODE
  /\ IR = FillerWord /\ opcode(IR) = BRANCH_OPCODE /\ mode(IR) = 7
  /\ PC > 0 /\ PC < CODE_SIZE /\ code[PC] = FillerWord

\* ------------------------------------------------------------------ properties of MOVE
\* the word a read of word address a (inside data memory) finds: the payload
\* of the entry holding its block, else the word of data memory
ReadWord(a) ==
  LET fb == find_block(M, addr2tag(a)) IN
    IF fb.found THEN FromBytes(data_cache[fb.block_id][addr2offset(a)]) ELSE DataWord(a)

\* the six low bits of IR[1] as a signed number, in 16 bits
Literal6(ir) == IF ir[2] % 64 >= 32 THEN 65536 - 64 + (ir[2] % 64) ELSE ir[2] % 64

\* WRITE_BACK retires a MOVE of mode md whose address R[r1] is inside data memory
RetiresStore(md) ==
  /\ current_phase = WRITE_BACK /\ current_phase' = FETCH_INSTR
  /\ opcode(IR) = MOVE_OPCODE /\ mode(IR) = md
  /\ registers[get_reg1(IR)] < DataWords

S16(x) == IF x >= 32768 THEN x - 65536 ELSE x

\* the comparison of R[r1] with R[0] that BRANCH mode md makes
Compares(md, a, b) ==
  \/ md = 1 /\ S16(a) = S16(b)
  \/ md = 2 /\ S16(a) # S16(b)
  \/ md = 3 /\ S16(a) < S16(b)
  \/ md = 4 /\ S16(a) > S16(b)
  \/ md = 5 /\ S16(a) <= S16(b)
  \/ md = 6 /\ S16(a) >= S16(b)

\* the conditional branch in IR is taken
TakenBranch ==
  /\ opcode(IR) = BRANCH_OPCODE /\ mode(IR) \in 1 .. 6
  /\ Compares(mode(IR), registers[get_reg1(IR)], registers[0])

\* C13: an instruction that reaches the end of WRITE_BACK leaves PC at
\* PC_before + 1 if it is no branch or a conditional branch not taken, and at
\* PC_before + sign_ext(imm) modulo 2^16 if it is a taken conditional branch;
\* the phases before WRITE_BACK leave PC alone.
C13_NextPC ==
  [][/\ (current_phase \in RunningPhases /\ current_phase # WRITE_BACK) => PC' = PC
     /\ (current_phase = WRITE_BACK /\ current_phase' # WRITE_BACK) =>
          /\ (opcode(IR) # BRANCH_OPCODE \/ (mode(IR) \in 1 .. 6 /\ ~TakenBranch)) =>
               PC' = (PC + 1) % 65536
          /\ TakenBranch => PC' = (PC + Literal6(IR)) % 65536]_vars

\* the instruction in IR is a jump (BRANCH mode 0)
IsJump == opcode(IR) = BRANCH_OPCODE /\ mode(IR) = 0

\* IR holds the instruction that FETCH_INSTR loaded from code memory
IRFetched == fetched < CODE_SIZE /\ IR = code[fetched]

\* C14: a jump that retires sets PC to R[r1] + 1 modulo 2^16, whatever the
\* literal field and R[0] hold, and counts as one branch in branch_count.
\* The jump is the instruction fetched: IR holds it from FETCH_INSTR on.
C14_Jump ==
  [][/\ (current_phase = EXECUTE_INSTR /\ IsJump) => branch_count' = branch_count + 1
     /\ (current_phase = WRITE_BACK /\ current_phase' = FETCH_INSTR
          /\ IsJump /\ IRFetched) =>
          PC' = (registers[get_reg1(IR)] + 1) % 65536]_vars

\* the jump through R1 = 0xFFFF, with a literal field and R0 that are not 0,
\* has retired once and left PC = 0
C14_Witness ==
  /\ current_phase = FETCH_INSTR
  /\ IsJump /\ IR[2] % 64 # 0
  /\ registers[get_reg1(IR)] = 65535 /\ registers[0] # 0
  /\ PC = 0 /\ branch_count = 1

\* ------------------------------------------------------------------ properties of the ALU and branch unit
\* C15: for BRANCH modes 1 to 6 the branch is taken if and only if the
\* comparison of R[r1] with R[0], both read as signed 16-bit values, holds;
\* a taken branch counts in branch_count and leaves PC + imm - 1 in ALU_z, a
\* branch not taken leaves PC there.
C15_Comparison ==
  [][(current_phase = EXECUTE_INSTR /\ opcode(IR) = BRANCH_OPCODE /\ mode(IR) \in 1 .. 6) =>
       /\ (branch_count' = branch_count + 1) <=> TakenBranch
       /\ (branch_count' = branch_count) <=> ~TakenBranch
       /\ ALU_z' = IF TakenBranch THEN (PC + Literal6(IR) + 65536 - 1) % 65536 ELSE PC]_vars

\* BLT with R1 = -1 and R0 = 0 has been taken
C15_Witness ==
  /\ current_phase = WRITE_BACK
  /\ opcode(IR) = BRANCH_OPCODE /\ mode(IR) = 3
  /\ registers[get_reg1(IR)] = 65535 /\ registers[0] = 0
  /\ branch_count = 1
  /\ ALU_z = (PC + Literal6(IR) + 65536 - 1) % 65536

\* the instruction in IR is a jump or a conditional branch that is taken
CountedBranch == IsJump \/ TakenBranch

\* C16: branch_count grows by one with every jump and every taken conditional
\* branch executed and with nothing else; the run ends with INFINITE_LOOP
\* exactly when the (BRANCH_LIMIT + 1)-th of them executes, and that branch's
\* target is not committed to PC.
C16_BranchLimit ==
  [][/\ current_phase = EXECUTE_INSTR =>
          /\ branch_count' = branch_count + (IF CountedBranch THEN 1 ELSE 0)
          /\ (current_phase' = INFINITE_LOOP) <=>
               (CountedBranch /\ branch_count = BRANCH_LIMIT)
          /\ PC' = PC
     /\ current_phase # EXECUTE_INSTR =>
          /\ branch_count' = branch_count
          /\ current_phase' = INFINITE_LOOP => current_phase = INFINITE_LOOP
     /\ branch_count' <= BRANCH_LIMIT + 1
     /\ (current_phase' \in RunningPhases) => branch_count' <= BRANCH_LIMIT]_vars

\* a conditional branch to itself has been taken BRANCH_LIMIT + 1 times and
\* the run has ended with PC still at the branch
C16_Witness ==
  /\ current_phase = INFINITE_LOOP /\ ~flushed
  /\ branch_count = BRANCH_LIMIT + 1
  /\ opcode(IR) = BRANCH_OPCODE /\ mode(IR) \in 1 .. 6
  /\ PC < CODE_SIZE /\ code[PC] = IR

\* the bits of a 16-bit value, and the value of sixteen bits
BitOf(x, i) == (x \div (2 ^ i)) % 2
RECURSIVE Bitwise(_, _, _, _)
Bitwise(f, a, b, i) ==
  IF i > 15 THEN 0
  ELSE (IF f[<<BitOf(a, i), BitOf(b, i)>>] THEN 2 ^ i ELSE 0) + Bitwise(f, a, b, i + 1)
BitAnd == [p \in {0, 1} \X {0, 1} |-> p[1] = 1 /\ p[2] = 1]
BitOr == [p \in {0, 1} \X {0, 1} |-> p[1] = 1 \/ p[2] = 1]
BitXor == [p \in {0, 1} \X {0, 1} |-> p[1] # p[2]]

\* the second operand of the arithmetic or logical instruction in IR
Operand == IF mode(IR) = 1 THEN registers[(IR[2] \div 4) % 16] ELSE Literal6(IR)

\* the value the claim gives R[r1] for the instruction in IR, a being R[r1]
Result(a) ==
  IF opcode(IR) = ADD_OPCODE THEN (a + Operand) % 65536
  ELSE IF opcode(IR) = SUB_OPCODE THEN (a + 65536 - Operand) % 65536
  ELSE IF opcode(IR) = AND_OPCODE THEN Bitwise(BitAnd, a, Operand, 0)
  ELSE IF opcode(IR) = OR_OPCODE THEN Bitwise(BitOr, a, Operand, 0)
  ELSE IF opcode(IR) = XOR_OPCODE THEN Bitwise(BitXor, a, Operand, 0)
  ELSE IF mode(IR) = 0 THEN a \div 2 ELSE (a * 2) % 65536

\* C17: ADD, SUB, AND, OR and XOR commit (R[r1] op operand) modulo 2^16 to
\* R[r1], the operand being R[r2] in mode 1 and the sign-extended 6-bit
\* literal in mode 0; SHIFT commits R[r1] shifted logically by one bit, right
\* in mode 0 and left in mode 1, truncated to 16 bits.  The instruction is
\* the one fetched: IR holds it from FETCH_INSTR on.
C17_Commit ==
  [][(current_phase = WRITE_BACK /\ current_phase' = FETCH_INSTR
       /\ opcode(IR) \in {ADD_OPCODE, SUB_OPCODE, AND_OPCODE, OR_OPCODE, XOR_OPCODE,
                          SHIFT_OPCODE}
       /\ IRFetched) =>
       /\ registers'[get_reg1(IR)] = Result(registers[get_reg1(IR)])
       /\ \A r \in 0 .. (REGISTERS - 1) :
            r # get_reg1(IR) => registers'[r] = registers[r]]_vars

\* ADD R1, #0x3F has retired on R1 = 1 and left 0: the literal acted as -1
C17_Witness ==
  /\ current_phase = FETCH_INSTR
  /\ code[0] = ToBytes(MovI(1, 1))
  /\ IR = ToBytes(OpI(ADD_OPCODE, 1, 63)) /\ code[1] = IR
  /\ PC = 2 /\ registers[1] = 0

\* ------------------------------------------------------------------ properties of the phase sequencer
\* the phases that may follow phase ph for the instruction in IR
Follows(ph) ==
  IF ph = FETCH_INSTR THEN {DECODE_INSTR, ILLEGAL_ADDRESS}
  ELSE IF ph = DECODE_INSTR
    THEN IF opcode(IR) = MOVE_OPCODE THEN {CALCULATE_EA, ILLEGAL_OPCODE}
         ELSE {FETCH_OPERANDS, ILLEGAL_OPCODE}
  ELSE IF ph = CALCULATE_EA
    THEN IF opcode(IR) = MOVE_OPCODE THEN {FETCH_OPERANDS} ELSE {}
  ELSE IF ph = FETCH_OPERANDS
    THEN IF opcode(IR) = MOVE_OPCODE THEN {WRITE_BACK, ILLEGAL_ADDRESS}
         ELSE {EXECUTE_INSTR}
  ELSE IF ph = EXECUTE_INSTR
    THEN IF opcode(IR) = MOVE_OPCODE THEN {} ELSE {WRITE_BACK, INFINITE_LOOP}
  ELSE IF ph = WRITE_BACK THEN {FETCH_INSTR, ILLEGAL_ADDRESS}
  ELSE {}

C18_RoundTrip ==
  (asm.op = "encode" /\ current_phase = DECODE_INSTR) =>
    /\ IR = asm.machineCode
    /\ opcode(IR) = asm.opcode
    /\ mode(IR) = asm.type
    /\ get_reg1(IR) = asm.reg1
    /\ asm.form = "reg" => get_reg2(IR) = asm.reg2
    /\ asm.form = "imm" => S16(extract_literal(IR)) = asm.immediate

\* C19: assembling an arithmetic or logical instruction whose immediate
\* operand lies outside -32..31 fails with an error and produces no machine
\* code.
C19_RangeError ==
  (/\ asm.op = "line" /\ asm.form = "imm"
   /\ asm.opcode \in {ADD_OPCODE, SUB_OPCODE, AND_OPCODE, OR_OPCODE, XOR_OPCODE}
   /\ asm.operand \notin -32 .. 31) =>
    (asm.error /\ asm.machineCode = <<>> /\ code = EmptyCode)

\* ------------------------------------------------------------------ MOVE mode 5
\* IR holds a MOVE of mode md
IsMove(md) == opcode(IR) = MOVE_OPCODE /\ mode(IR) = md

AcceptedCall == last'.op \in {"read", "write"} /\ last'.rc # ILLEGAL_ADDRESS

\* the step writes entry b back: in the final flush, or as the entry freed by
\* a miss that found every entry valid
WrittenBack(b) ==
  \/ last'.op = "flush"
  \/ /\ AcceptedCall /\ ~last'.hit
     /\ \A c \in Blocks : dictionary[c].valid
     /\ last'.block_id = b

\* C22: data memory changes only through the write-back of a valid dirty
\* entry, which copies its payload to block data[tag] and changes no other
\* block; an access to a non-resident tag with every entry valid (with one
\* entry: every access to a new tag) evicts one resident entry under this rule.
C22_DataFrame ==
  [][/\ \A t \in DataTags :
          data'[t] # data[t] =>
            \E b \in Blocks : /\ WrittenBack(b)
                              /\ dictionary[b].valid /\ dictionary[b].dirty
                              /\ dictionary[b].tag = t
     /\ \A b \in Blocks :
          (WrittenBack(b) /\ dictionary[b].valid /\ dictionary[b].dirty) =>
            /\ dictionary[b].tag \in DataTags
            /\ data'[dictionary[b].tag] = data_cache[b]
     /\ (/\ AcceptedCall
         /\ \A c \in Blocks : dictionary[c].valid /\ dictionary[c].tag # addr2tag(last'.mar)) =>
          /\ ~last'.hit
          /\ last'.block_id \in Blocks
          /\ dictionary'[last'.block_id].tag = addr2tag(last'.mar)
          /\ \A c \in Blocks \ {last'.block_id} : dictionary'[c] = dictionary[c]]_vars

\* ------------------------------------------------------------------ the halt report
\* C23: when the run has halted with ILLEGAL_OPCODE, INFINITE_LOOP or
\* ILLEGAL_ADDRESS, PC is the address the halting instruction was fetched
\* from (or the fetch address that was out of range), whatever the cause,
\* a MOVE load or store with a data address out of range included.
C23_OffendingPC ==
  (current_phase \in TerminalPhases /\ ~flushed) => PC = fetched

\* ------------------------------------------------------------------ termination
\* the step retires an instruction that is neither a jump nor a taken branch
RetiresInLine ==
  /\ current_phase = WRITE_BACK /\ current_phase' = FETCH_INSTR
  /\ ~CountedBranch

\* C24: the phase loop reaches a terminal phase after finitely many phases,
\* because PC strictly increases between two jumps or taken branches (no
\* other step moves it), a fetch fails once PC >= CODE_SIZE, and at most
\* BRANCH_LIMIT jumps and taken branches retire: a run fetches at most
\* CODE_SIZE + 1 times before the first of them and after each.
C24_Terminates ==
  /\ <>(current_phase \in TerminalPhases)
  /\ [](n_fetch <= (branch_count + 1) * (CODE_SIZE + 1))
  /\ [][/\ RetiresInLine => PC' > PC
        /\ (current_phase \in RunningPhases /\ current_phase # WRITE_BACK) => PC' = PC
        /\ (current_phase = FETCH_INSTR /\ PC >= CODE_SIZE) =>
             current_phase' = ILLEGAL_ADDRESS
        /\ (current_phase = WRITE_BACK /\ CountedBranch) =>
             branch_count <= BRANCH_LIMIT]_vars

\* ------------------------------------------------------------------ shape of the dictionary
\* the number of valid entries
NValid == Cardinality({b \in Blocks : dictionary[b].valid})
\* the lowest-indexed invalid entry; CACHE_BLOCKS if every entry is valid
LowestFree ==
  IF \A b \in Blocks : dictionary[b].valid THEN CACHE_BLOCKS
  ELSE CHOOSE b \in Blocks :
         ~dictionary[b].valid /\ \A c \in Blocks : c < b => dictionary[c].valid

\* C25: before the final flush the valid entries are exactly
\* dictionary[0..k-1] for a k that never decreases, and every invalid entry
\* has dirty = false and ref_count = 0; a miss with a free entry fills the
\* lowest-indexed invalid entry and evicts nothing; an entry is evicted only
\* when every entry is valid, and the same access refills it.
C25_ValidPrefix ==
  /\ [](~flushed =>
          /\ \A b \in Blocks : dictionary[b].valid <=> b < NValid
          /\ \A b \in Blocks :
               ~dictionary[b].valid =>
                 (~dictionary[b].dirty /\ dictionary[b].ref_count = ULong(0)))
  /\ [][~flushed' =>
          /\ NValid' >= NValid
          /\ (AcceptedCall /\ ~last'.hit /\ LowestFree < CACHE_BLOCKS) =>
               /\ last'.block_id = LowestFree
               /\ dictionary'[LowestFree].valid
               /\ \A c \in Blocks \ {LowestFree} : dictionary'[c] = dictionary[c]
          /\ \A b \in Blocks :
               (dictionary[b].valid
                  /\ (~dictionary'[b].valid \/ dictionary'[b].tag # dictionary[b].tag)) =>
                 /\ LowestFree = CACHE_BLOCKS
                 /\ AcceptedCall /\ ~last'.hit /\ last'.block_id = b
                 /\ dictionary'[b].valid
                 /\ dictionary'[b].tag = addr2tag(last'.mar)]_vars

\* ------------------------------------------------------------------ frame of the registers
\* the instruction in IR is one that writes register r1 in WRITE_BACK
WritesRegister ==
  \/ opcode(IR) \in {ADD_OPCODE, SUB_OPCODE, AND_OPCODE, OR_OPCODE, XOR_OPCODE, SHIFT_OPCODE}
  \/ opcode(IR) = MOVE_OPCODE /\ mode(IR) \in {0, 1}

\* C26: a register changes only in the WRITE_BACK of an arithmetic, logical,
\* SHIFT or MOVE-to-register instruction, and then it is register r1 and the
\* other registers keep their values; BRANCH and MOVE-to-memory change no
\* register; no phase changes code memory.
C26_RegisterFrame ==
  [][(current_phase \in RunningPhases) =>
       /\ \A r \in 0 .. (REGISTERS - 1) :
            registers'[r] # registers[r] =>
              (current_phase = WRITE_BACK /\ WritesRegister /\ r = get_reg1(IR))
       /\ code' = code]_vars

====
